---- MODULE Spec2Model ----
(***************************************************************************)
(* Scalar field of NIST P-384 (p384/src/arithmetic/scalar.rs).             *)
(*                                                                         *)
(* Every multi-word quantity of the program ([u8; 48] buffers, U384, the   *)
(* 6 x u64 limb arrays Fe / NonMontFe, the 7 x u64 arrays XLimbs, a u64)   *)
(* is kept at its full width as a little-endian sequence of bytes:         *)
(* 48 bytes for a field element, 56 for XLimbs, 8 for a u64.  Limb k of a  *)
(* limb array is bytes 8k+1 .. 8k+8 of the sequence.                       *)
(***************************************************************************)
EXTENDS Integers, Sequences, FiniteSets, Bags, TLC

VARIABLES
    pc,     \* position of the call being modelled
    fn,     \* the constructor / decoder that produced sc
    arg,    \* the caller's input: [u8; 48] / U384 (48 bytes), u64 (8 bytes)
    sc,     \* the constructor's outcome: [ok, val] (val: Fe) or a panic
    fn2,    \* the operation applied to the scalar sc.val
    out,    \* what fn2 returned
    rnd,    \* random(): [bytes, draws], the buffer fill_bytes wrote and the draw count
    inv,    \* invert(): the locals i, d, f, g, v, r
    sq      \* sqrt(): the addition chain's temporaries and the line reached

vars == <<pc, fn, arg, sc, fn2, out, rnd, inv, sq>>

----------------------------------------------------------------------------
(* Bounds of the model.                                                    *)

\* inputs are taken at offsets 0 .. MaxK from the interesting values
MaxK == 2
\* draws of random() the model follows before it stops the generator
MaxDraws == 2

----------------------------------------------------------------------------
(* Machine integers as little-endian byte sequences.                       *)

\* TLC evaluates a definition's body anew wherever its name is used.  A value that
\* is used more than once is therefore bound by a quantifier, x \in Val(e), which
\* evaluates e once and in full; The(S) is the element of a one-element set.
Val(e) == {v \in {e} : v = v}
The(S) == CHOOSE r \in S : TRUE

Zeros(len) == [i \in 1..len |-> 0]

\* a natural number below 2^24 as a len-byte little-endian integer
ToBytesLE(x, len) ==
    [i \in 1..len |-> CASE i = 1 -> x % 256
                        [] i = 2 -> (x \div 256) % 256
                        [] i = 3 -> (x \div 65536) % 256
                        [] OTHER -> 0]

\* the carry into byte i of a + b + c: the byte below decides it unless it sums to
\* exactly 255; then some lower byte generates a carry (or c comes in) and every
\* byte in between passes it on
CarryIn(a, b, i, c) ==
    IF i > 1 /\ a[i - 1] + b[i - 1] # 255 THEN a[i - 1] + b[i - 1] > 255
    ELSE \/ \E j \in 1..(i - 1) : /\ a[j] + b[j] > 255
                                  /\ \A k \in (j + 1)..(i - 1) : a[k] + b[k] = 255
         \/ c = 1 /\ \A k \in 1..(i - 1) : a[k] + b[k] = 255

\* a + b + c over Len(a) bytes; the last element of the result is the carry out
adc(a, b, c) ==
    The({[i \in 1..(Len(x) + 1) |->
            IF i <= Len(x)
            THEN (x[i] + y[i] + (IF CarryIn(x, y, i, c) THEN 1 ELSE 0)) % 256
            ELSE IF CarryIn(x, y, i, c) THEN 1 ELSE 0] : x \in Val(a), y \in Val(b)})

\* the borrow into byte i of a - b - c, in the same way
BorrowIn(a, b, i, c) ==
    IF i > 1 /\ a[i - 1] # b[i - 1] THEN a[i - 1] < b[i - 1]
    ELSE \/ \E j \in 1..(i - 1) : /\ a[j] < b[j]
                                  /\ \A k \in (j + 1)..(i - 1) : a[k] = b[k]
         \/ c = 1 /\ \A k \in 1..(i - 1) : a[k] = b[k]

\* a - b - c over Len(a) bytes; the last element of the result is the borrow out
sbc(a, b, c) ==
    The({[i \in 1..(Len(x) + 1) |->
            IF i <= Len(x)
            THEN (x[i] - y[i] - (IF BorrowIn(x, y, i, c) THEN 1 ELSE 0) + 256) % 256
            ELSE IF BorrowIn(x, y, i, c) THEN 1 ELSE 0] : x \in Val(a), y \in Val(b)})

Body(s) == The({SubSeq(v, 1, Len(v) - 1) : v \in Val(s)})
Last(s) == The({v[Len(v)] : v \in Val(s)})

WrapAdd(a, b) == Body(adc(a, b, 0))
WrapSub(a, b) == Body(sbc(a, b, 0))
\* unsigned a < b, by the borrow of a - b
Below(a, b) == Last(sbc(a, b, 0)) = 1

Pad(s, len) == The({IF Len(v) >= len THEN v ELSE v \o Zeros(len - Len(v)) : v \in Val(s)})

\* the positions of the non-zero bytes of s
NonZero(s) == {i \in 1..Len(s) : s[i] # 0}

\* s without its high zero bytes
Strip(s) ==
    The({IF NonZero(v) = {} THEN <<>>
         ELSE SubSeq(v, 1, CHOOSE m \in NonZero(v) : \A j \in NonZero(v) : j <= m)
         : v \in Val(s)})

\* column k of the schoolbook product: the sum of a[i] * b[k - i] over the i where
\* both digits exist (the sum of the counts of a bag)
ColSum(a, b, k) ==
    BagCardinality([i \in {i \in 1..Len(a) :
                              k - i >= 1 /\ k - i <= Len(b) /\ a[i] * b[k - i] > 0}
                       |-> a[i] * b[k - i]])

\* the column sums of a * b, each below 2^24
Columns(a, b) == [j \in 1..(Len(a) + Len(b)) |-> ColSum(a, b, j + 1)]

\* the integer the column sums spell: every column sum is split in three bytes,
\* and the three byte planes are added
Carried(cols) ==
    WrapAdd(WrapAdd([j \in 1..Len(cols) |-> cols[j] % 256],
                    [j \in 1..Len(cols) |->
                        IF j > 1 THEN (cols[j - 1] \div 256) % 256 ELSE 0]),
            [j \in 1..Len(cols) |-> IF j > 2 THEN cols[j - 2] \div 65536 ELSE 0])

\* the full product of two unsigned integers, Len(a) + Len(b) bytes
MulWide(a, b) ==
    The({The({Carried(cols) : cols \in Val(Columns(x, y))}) : x \in Val(a), y \in Val(b)})

\* logical shift right by one bit
Shr1(a) ==
    The({[i \in 1..Len(x) |->
            (x[i] \div 2) + (IF i < Len(x) THEN (x[i + 1] % 2) * 128 ELSE 0)]
         : x \in Val(a)})
\* arithmetic (sign-preserving) shift right by one bit of a two's complement value
Sar1(a) ==
    The({[i \in 1..Len(x) |->
            (x[i] \div 2) + (IF i < Len(x) THEN (x[i + 1] % 2) * 128
                             ELSE (x[i] \div 128) * 128)]
         : x \in Val(a)})

\* byte x with bitwise and / or / xor against byte y
RECURSIVE BitOp(_, _, _, _)
BitOp(op, x, y, bits) ==
    IF bits = 0 THEN 0
    ELSE (CASE op = "and" -> (x % 2) * (y % 2)
            [] op = "or"  -> IF (x % 2) + (y % 2) > 0 THEN 1 ELSE 0
            [] op = "xor" -> ((x % 2) + (y % 2)) % 2)
         + 2 * BitOp(op, x \div 2, y \div 2, bits - 1)

----------------------------------------------------------------------------
(* The curve order n = NistP384::ORDER (crate constant, 384 bits), written *)
(* big-endian as in the standard; root_of_unity() below spells n - 1.      *)

ORDER_BE ==
    << \hff, \hff, \hff, \hff, \hff, \hff, \hff, \hff, \hff, \hff, \hff, \hff,
       \hff, \hff, \hff, \hff, \hff, \hff, \hff, \hff, \hff, \hff, \hff, \hff,
       \hc7, \h63, \h4d, \h81, \hf4, \h37, \h2d, \hdf, \h58, \h1a, \h0d, \hb2,
       \h48, \hb0, \ha7, \h7a, \hec, \hec, \h19, \h6a, \hcc, \hc5, \h29, \h73 >>

Reverse(s) == The({[i \in 1..Len(v) |-> v[Len(v) + 1 - i]] : v \in Val(s)})

\* NistP384::ORDER as a U384 (little-endian bytes)
ORDER == Reverse(ORDER_BE)

----------------------------------------------------------------------------
(* The field backend p384_scalar (fiat-crypto, word-by-word Montgomery):   *)
(* modelled by its contract.  R = 2^384.                                   *)

\* 2^384 - n = R mod n
RmodN == WrapSub(Zeros(48), ORDER)

\* R mod n without its high zero bytes (24 bytes)
RmodNShort == Strip(RmodN)

\* x - n if x >= n, else x (x of 48 bytes)
SubOrder(x) == The({IF Below(v, ORDER) THEN v ELSE WrapSub(v, ORDER) : v \in Val(x)})

\* lo + hi * (R mod n), where s = lo + hi * 2^384 is longer than 48 bytes
Fold(s) ==
    The({WrapAdd(Pad(SubSeq(s, 1, 48), Len(m) + 1), Pad(m, Len(m) + 1))
         : m \in Val(Pad(MulWide(SubSeq(s, 49, Len(s)), RmodNShort), 48))})

\* an unsigned integer of any length reduced mod n, using 2^384 = RmodN (mod n)
RECURSIVE ModN(_)
ModN(t) ==
    The({IF Len(s) <= 48 THEN SubOrder(Pad(s, 48)) ELSE ModN(Fold(s))
         : s \in Val(Strip(t))})

MulModN(a, b) == ModN(MulWide(a, b))

\* x^e mod n for a small exponent e, by square and multiply
RECURSIVE PowModN(_, _)
PowModN(x, e) ==
    IF e = 0 THEN ToBytesLE(1, 48)
    ELSE The({The({IF e % 2 = 0 THEN PowModN(xx, e \div 2)
                   ELSE MulModN(v, PowModN(xx, e \div 2))
                   : xx \in Val(MulModN(v, v))}) : v \in Val(x)})

\* 1/2 mod n = (n + 1) / 2
HalfModN == SubSeq(Shr1(adc(ORDER, ToBytesLE(1, 48), 0)), 1, 48)

\* R^-1 mod n = 2^-384 mod n
RinvModN == PowModN(HalfModN, 384)

\* out1 = arg1 * R mod n
fiat_p384_scalar_to_montgomery(x) == MulModN(x, RmodNShort)
\* out1 = arg1 * R^-1 mod n
fiat_p384_scalar_from_montgomery(x) == MulModN(x, RinvModN)
\* little-endian bytes to limbs and back: the same bytes, grouped by 8
fiat_p384_scalar_from_bytes(bytes) == bytes
fiat_p384_scalar_to_bytes(limbs) == limbs
\* Montgomery product a * b * R^-1 mod n
fiat_p384_scalar_mul(a, b) == MulModN(MulModN(a, b), RinvModN)
fiat_p384_scalar_square(a) == The({fiat_p384_scalar_mul(x, x) : x \in Val(a)})
fiat_p384_scalar_add(a, b) == ModN(adc(a, b, 0))
fiat_p384_scalar_sub(a, b) ==
    The({IF Below(x, y) THEN WrapAdd(WrapSub(x, y), ORDER) ELSE WrapSub(x, y)
         : x \in Val(a), y \in Val(b)})
fiat_p384_scalar_opp(a) == fiat_p384_scalar_sub(Zeros(48), a)
\* out1 = (if arg1 = 0 then arg2 else arg3)
fiat_p384_scalar_selectznz(c, z, nz) == IF c = 0 THEN z ELSE nz
\* the Montgomery form of 1
fiat_p384_scalar_set_one == RmodN
\* the modulus as a saturated 7-limb two's complement value
fiat_p384_scalar_msat == Pad(ORDER, 56)

----------------------------------------------------------------------------
(* Result<Scalar>, CtOption<Scalar> and a panic (unwrap / expect on a      *)
(* failure) as one record.                                                 *)

Ok(v)  == [ok |-> TRUE,  val |-> v,    panic |-> FALSE]
Err    == [ok |-> FALSE, val |-> <<>>, panic |-> FALSE]
Panic  == [ok |-> FALSE, val |-> <<>>, panic |-> TRUE]
\* CtOption::new(value, choice)
CtOption(v, choice) == [ok |-> choice = 1, val |-> v, panic |-> FALSE]
\* Result::unwrap / Result::expect / CtOption::unwrap
Unwrap(r) == IF r.ok THEN r ELSE Panic

\* limb k (0-based) of a limb array
Limb(a, k) == SubSeq(a, 8 * k + 1, 8 * k + 8)
\* limbs[k] = word
SetLimb(a, k, word) ==
    [i \in 1..Len(a) |-> IF i > 8 * k /\ i <= 8 * k + 8 THEN word[i - 8 * k] ELSE a[i]]

----------------------------------------------------------------------------
(* impl Scalar                                                             *)

\* Scalar::ONE, limb by limb (each u64 literal as its 8 little-endian bytes)
ONE ==
    << \h8d, \hd6, \h3a, \h33, \h95, \he6, \h13, \h13 >>     \* 1374695839762142861
 \o << \h85, \h58, \h4f, \hb7, \h4d, \hf2, \he5, \ha7 >>     \* 12098342389602539653
 \o << \h20, \hd2, \hc8, \h0b, \h7e, \hb2, \h9c, \h38 >>     \* 4079331616924160544
 \o Zeros(8) \o Zeros(8) \o Zeros(8)

ZERO == Zeros(8) \o Zeros(8) \o Zeros(8) \o Zeros(8) \o Zeros(8) \o Zeros(8)

\* x.iter().rev() zipped with swapped.iter_mut()
swap48(x) == [r \in 1..48 |-> x[48 + 1 - r]]

\* faulty variant of ScanStep: c is not masked by n, so a smaller byte counts even
\* below a more significant byte that is already larger
ScanStep_unmasked(cn, s, l) ==
    LET d16 == (s - l + 65536) % 65536
        c1  == BitOp("or", cn[1], (d16 \div 256) % 256, 8)
        x16 == (BitOp("xor", s, l, 8) - 1 + 65536) % 65536
        n1  == BitOp("and", cn[2], (x16 \div 256) % 256, 8)
    IN  <<c1, n1>>

\* the body of the loop of from_le_bytes on the byte pair (s, l); cn = <<c, n>>
ScanStep(cn, s, l) ==
    LET d16 == (s - l + 65536) % 65536                 \* (s as u16).wrapping_sub(l as u16)
        c1  == BitOp("or", cn[1], BitOp("and", (d16 \div 256) % 256, cn[2], 8), 8)
        x16 == (BitOp("xor", s, l, 8) - 1 + 65536) % 65536
        n1  == BitOp("and", cn[2], (x16 \div 256) % 256, 8)
    IN  <<c1, n1>>

\* bytes.iter().rev().zip(order_le.iter().rev()): the loop body at index hi, then
\* hi - 1, ... down to lo (the range is split in two halves, upper half first)
RECURSIVE Scan(_, _, _, _, _)
Scan(bytes, order_le, hi, lo, cn) ==
    IF hi < lo THEN cn
    ELSE IF hi = lo THEN ScanStep(cn, bytes[hi], order_le[hi])
    ELSE The({Scan(bytes, order_le, (lo + hi) \div 2, lo, up)
              : up \in Val(Scan(bytes, order_le, hi, ((lo + hi) \div 2) + 1, cn))})

from_le_bytes(bytes) ==
    The({IF Scan(b, ORDER, 48, 1, <<0, 1>>)[1] = 0 THEN Err
         ELSE Ok(fiat_p384_scalar_to_montgomery(fiat_p384_scalar_from_bytes(b)))
         : b \in Val(bytes)})

from_be_bytes(bytes) == from_le_bytes(swap48(bytes))

to_non_mont(self) == fiat_p384_scalar_from_montgomery(self)

\* faulty variant of to_le_bytes: the limbs are serialised without leaving the
\* Montgomery domain
to_le_bytes_raw(self) == fiat_p384_scalar_to_bytes(self)

to_le_bytes(self) ==
    LET non_mont == to_non_mont(self)
    IN  fiat_p384_scalar_to_bytes(non_mont)

to_be_bytes(self) == swap48(to_le_bytes(self))

double(self) == fiat_p384_scalar_add(self, self)
square(self) == fiat_p384_scalar_square(self)

\* n squarings in a row (the loop is split in two halves to keep the evaluation shallow)
RECURSIVE sqn(_, _)
sqn(self, n) ==
    IF n = 0 THEN self
    ELSE IF n = 1 THEN square(self)
    ELSE The({sqn(h, n - n \div 2) : h \in Val(sqn(self, n \div 2))})

add(self, other) == fiat_p384_scalar_add(self, other)
sub(self, other) == fiat_p384_scalar_sub(self, other)
neg(self) == fiat_p384_scalar_opp(self)
mul(self, other) == fiat_p384_scalar_mul(self, other)

\* ConstantTimeEq: every limb pair equal
ct_eq(self, rhs) == IF \A k \in 0..5 : Limb(self, k) = Limb(rhs, k) THEN 1 ELSE 0
is_zero(self) == ct_eq(ZERO, self)

----------------------------------------------------------------------------
(* impl PrimeField, the conversions, IsHigh, Reduce                        *)

from_repr(bytes) ==
    LET non_mont == fiat_p384_scalar_from_bytes(swap48(bytes))
        mont     == fiat_p384_scalar_to_montgomery(non_mont)
    IN  CtOption(mont, 1)

to_repr(self) == to_be_bytes(self)

\* impl From<u64> for Scalar: limbs[limbs.len() - 1] = n
from_u64(n) ==
    LET limbs == SetLimb(Zeros(48), 6 - 1, n)
    IN  fiat_p384_scalar_to_montgomery(limbs)

\* impl TryFrom<U384> for Scalar
try_from_U384(w) ==
    LET bytes == w                                     \* w.to_le_bytes()
        limbs == fiat_p384_scalar_from_bytes(bytes)
    IN  Ok(limbs)

\* impl From<Scalar> for U384 / impl From<&Scalar> for U384
U384_from(scalar) == to_le_bytes(scalar)

\* self.0.iter().zip(other.0.iter()): out is set when some limb of self is above
\* the limb of other at the same index
ct_gt(self, other) ==
    IF \E k \in 0..5 : Below(Limb(other, k), Limb(self, k)) THEN 1 ELSE 0

frac_modulus_2 == Unwrap(from_le_bytes(Shr1(ORDER))).val

is_high(self) == ct_gt(self, frac_modulus_2)

\* U384::sbb(&rhs, Limb::ZERO): the difference and the borrow limb (0 or u64::MAX)
sbb(w, rhs) ==
    LET d == sbc(w, rhs, 0)
    IN  [r |-> Body(d), borrow |-> [i \in 1..8 |-> 255 * Last(d)]]

\* U384::conditional_select(a, b, choice)
conditional_select(a, b, choice) == IF choice = 1 THEN b ELSE a

\* ScalarCore::new(uint): none unless uint < ORDER
ScalarCore_new(uint) == IF Below(uint, ORDER) THEN Ok(uint) ELSE Err

\* impl From<ScalarCore<NistP384>> for Scalar
from_ScalarCore(x) == Unwrap(from_le_bytes(x))

\* faulty variant of from_uint_reduced: the select takes underflow, not !underflow
from_uint_reduced_flipped(w) ==
    LET sb        == sbb(w, ORDER)
        underflow == sb.borrow[8] \div 128
        reduced   == conditional_select(w, sb.r, underflow)
        core      == Unwrap(ScalarCore_new(reduced))
    IN  IF core.panic THEN Panic ELSE from_ScalarCore(core.val)

from_uint_reduced(w) ==
    LET sb        == sbb(w, ORDER)
        underflow == sb.borrow[8] \div 128             \* underflow.0 >> (Limb::BIT_SIZE - 1)
        reduced   == conditional_select(w, sb.r, 1 - underflow)
        core      == Unwrap(ScalarCore_new(reduced))
    IN  IF core.panic THEN Panic ELSE from_ScalarCore(core.val)

----------------------------------------------------------------------------
(* <Scalar as Field>::invert                                               *)

LEN_PRIME == 384
WORD_BITS == 64
LIMBS_WORDS == 6

ITERATIONS == (49 * LEN_PRIME + (IF LEN_PRIME < 46 THEN 80 ELSE 57)) \div 17

\* one divstep on (d, f, g, v, r): f and g are 7-limb two's complement integers,
\* v and r field elements, d a u64 read as a two's complement integer (it stays
\* within -ITERATIONS .. ITERATIONS + 1, far from wrapping).  With
\* c = (0 < d and g odd):
\*   out1 = if c then 1 - d else 1 + d
\*   out2 = if c then g else f
\*   out3 = if c then (g - f) / 2 else (g + (g mod 2) * f) / 2
\*   out4 = if c then 2 * r else 2 * v                        (mod n)
\*   out5 = if c then r - v else r + (g mod 2) * v            (mod n)
fiat_p384_scalar_divstep(d, f, g, v, r) ==
    IF d > 0 /\ g[1] % 2 = 1
    THEN [out1 |-> 1 - d,
          out2 |-> g,
          out3 |-> Sar1(WrapSub(g, f)),
          out4 |-> fiat_p384_scalar_add(r, r),
          out5 |-> fiat_p384_scalar_sub(r, v)]
    ELSE [out1 |-> 1 + d,
          out2 |-> f,
          out3 |-> Sar1(IF g[1] % 2 = 1 THEN WrapAdd(g, f) ELSE g),
          out4 |-> fiat_p384_scalar_add(v, v),
          out5 |-> IF g[1] % 2 = 1 THEN fiat_p384_scalar_add(r, v) ELSE r]

\* the Montgomery form of floor((n - 1) / 2) ^ ITERATIONS
fiat_p384_scalar_divstep_precomp ==
    fiat_p384_scalar_to_montgomery(PowModN(Shr1(ORDER), ITERATIONS))

\* fn one() -> Fe
one == fiat_p384_scalar_set_one

\* the locals of invert when the loop is entered; steps counts the calls of
\* fiat_p384_scalar_divstep made so far
invert_enter(self) ==
    [i    |-> 0,
     steps |-> 0,
     d    |-> 1,
     f    |-> fiat_p384_scalar_msat,
     \* g[..g_.len()].copy_from_slice(&g_)
     g    |-> Pad(fiat_p384_scalar_from_montgomery(self), 8 * (LIMBS_WORDS + 1)),
     r    |-> one,
     v    |-> Zeros(8 * LIMBS_WORDS),
     out1 |-> 0,
     out2 |-> Zeros(8 * (LIMBS_WORDS + 1)),
     out3 |-> Zeros(8 * (LIMBS_WORDS + 1)),
     out4 |-> Zeros(8 * LIMBS_WORDS),
     out5 |-> Zeros(8 * LIMBS_WORDS)]

\* the first divstep of a pass: from (d, f, g, v, r) into out1 .. out5
invert_step_out(st) ==
    The({[st EXCEPT !.out1 = o.out1, !.out2 = o.out2, !.out3 = o.out3,
                    !.out4 = o.out4, !.out5 = o.out5, !.steps = @ + 1]
         : o \in Val(fiat_p384_scalar_divstep(st.d, st.f, st.g, st.v, st.r))})

\* faulty variant of invert_step_back: the pass advances i by one, not by two
invert_step_back_single(st) ==
    The({[st EXCEPT !.d = o.out1, !.f = o.out2, !.g = o.out3, !.v = o.out4,
                    !.r = o.out5, !.i = @ + 1, !.steps = @ + 1]
         : o \in Val(fiat_p384_scalar_divstep(st.out1, st.out2, st.out3,
                                              st.out4, st.out5))})

\* the second divstep of a pass: from out1 .. out5 into (d, f, g, v, r); i += 2
invert_step_back(st) ==
    The({[st EXCEPT !.d = o.out1, !.f = o.out2, !.g = o.out3, !.v = o.out4,
                    !.r = o.out5, !.i = @ + 2, !.steps = @ + 1]
         : o \in Val(fiat_p384_scalar_divstep(st.out1, st.out2, st.out3,
                                              st.out4, st.out5))})

\* if ITERATIONS % 2 != 0 { divstep; v = out4; f = out2; }
invert_tail(st) ==
    IF ITERATIONS % 2 # 0
    THEN The({[t EXCEPT !.v = t.out4, !.f = t.out2] : t \in Val(invert_step_out(st))})
    ELSE st

\* ((f[f.len() - 1] >> (WORD_BITS - 1)) & 1) as u8
invert_sign(f) == (Limb(f, (Len(f) \div 8) - 1)[8] \div 128) % 2

\* faulty variant of invert_finish: v and v_opp change places in the select
invert_finish_swapped(self, st) ==
    The({CtOption(fiat_p384_scalar_mul(
                      fiat_p384_scalar_selectznz(invert_sign(t.f),
                                                 fiat_p384_scalar_opp(t.v), t.v),
                      fiat_p384_scalar_divstep_precomp),
                  1 - is_zero(self))
         : t \in Val(invert_tail(st))})

\* from the end of the loop to the returned CtOption: v_opp = -v, s the sign of f,
\* v_ = selectznz(s, v, v_opp), fe = v_ * precomp
invert_finish(self, st) ==
    The({CtOption(fiat_p384_scalar_mul(
                      fiat_p384_scalar_selectznz(invert_sign(t.f),
                                                 t.v, fiat_p384_scalar_opp(t.v)),
                      fiat_p384_scalar_divstep_precomp),
                  1 - is_zero(self))
         : t \in Val(invert_tail(st))})

----------------------------------------------------------------------------
(* <Scalar as Field>::sqrt                                                 *)

\* the let at source line t.line, on the record t of the lets made so far
sqrt_line(self, t) ==
    CASE t.line = 252 -> [t EXCEPT !.t1 = self]
      [] t.line = 253 -> [t EXCEPT !.t10 = square(t.t1)]
      [] t.line = 254 -> [t EXCEPT !.t11 = mul(self, t.t10)]
      [] t.line = 255 -> [t EXCEPT !.t101 = mul(t.t10, t.t11)]
      [] t.line = 256 -> [t EXCEPT !.t111 = mul(t.t10, t.t101)]
      [] t.line = 257 -> [t EXCEPT !.t1001 = mul(t.t10, t.t111)]
      [] t.line = 258 -> [t EXCEPT !.t1011 = mul(t.t10, t.t1001)]
      [] t.line = 259 -> [t EXCEPT !.t1101 = mul(t.t10, t.t1011)]
      [] t.line = 260 -> [t EXCEPT !.t1111 = mul(t.t10, t.t1101)]
      [] t.line = 261 -> [t EXCEPT !.t11110 = square(t.t1111)]
      [] t.line = 262 -> [t EXCEPT !.t11111 = mul(t.t1, t.t11110)]
      [] t.line = 263 -> [t EXCEPT !.t1111100 = sqn(t.t11111, 2)]
      [] t.line = 264 -> [t EXCEPT !.t11111000 = square(t.t1111100)]
      [] t.line = 265 -> [t EXCEPT !.i14 = square(t.t11111000)]
      [] t.line = 266 -> [t EXCEPT !.i20 = mul(sqn(t.i14, 5), t.i14)]
      [] t.line = 267 -> [t EXCEPT !.i31 = mul(sqn(t.i20, 10), t.i20)]
      [] t.line = 268 -> [t EXCEPT !.i58 = mul(sqn(mul(sqn(t.i31, 4), t.t11111000), 21), t.i31)]
      [] t.line = 269 -> [t EXCEPT !.i110 = mul(sqn(mul(sqn(t.i58, 3), t.t1111100), 47), t.i58)]
      [] t.line = 270 -> [t EXCEPT !.x194 = mul(mul(sqn(t.i110, 95), t.i110), t.t1111)]
      [] t.line = 271 -> [t EXCEPT !.i225 = sqn(mul(sqn(mul(sqn(t.x194, 6), t.t111), 3), t.t11), 7)]
      [] t.line = 272 -> [t EXCEPT !.i235 = mul(square(mul(sqn(mul(t.t1101, t.i225), 6), t.t1101)), t.t1)]
      [] t.line = 273 -> [t EXCEPT !.i258 = sqn(mul(sqn(mul(sqn(t.i235, 11), t.t11111), 2), t.t1), 8)]
      [] t.line = 274 -> [t EXCEPT !.i269 = mul(sqn(mul(sqn(mul(t.t1101, t.i258), 2), t.t11), 6), t.t1011)]
      [] t.line = 275 -> [t EXCEPT !.i286 = sqn(mul(sqn(mul(sqn(t.i269, 4), t.t111), 6), t.t11111), 5)]
      [] t.line = 276 -> [t EXCEPT !.i308 = mul(sqn(mul(sqn(mul(t.t1011, t.i286), 10), t.t1101), 9), t.t1101)]
      [] t.line = 277 -> [t EXCEPT !.i323 = sqn(mul(sqn(mul(sqn(t.i308, 4), t.t1011), 6), t.t1001), 3)]
      [] t.line = 278 -> [t EXCEPT !.i340 = mul(sqn(mul(sqn(mul(t.t1, t.i323), 7), t.t1011), 7), t.t101)]
      [] t.line = 279 -> [t EXCEPT !.i357 = sqn(mul(sqn(mul(sqn(t.i340, 5), t.t111), 5), t.t1111), 5)]
      [] t.line = 280 -> [t EXCEPT !.i369 = mul(sqn(mul(sqn(mul(t.t1011, t.i357), 4), t.t1011), 5), t.t111)]
      [] t.line = 281 -> [t EXCEPT !.i387 = sqn(mul(sqn(mul(sqn(t.i369, 3), t.t11), 7), t.t11), 6)]
      [] t.line = 282 -> [t EXCEPT !.i397 = mul(sqn(mul(sqn(mul(t.t1011, t.i387), 4), t.t101), 3), t.t11)]
      [] t.line = 283 -> [t EXCEPT !.i413 = sqn(mul(sqn(mul(sqn(t.i397, 4), t.t11), 4), t.t11), 6)]
      [] t.line = 284 -> [t EXCEPT !.i427 = mul(sqn(mul(sqn(mul(t.t101, t.i413), 5), t.t101), 6), t.t1011)]
      [] t.line = 285 -> [t EXCEPT !.x = mul(sqn(t.i427, 3), t.t101)]

\* faulty variant of sqrt_check: the candidate is returned as valid unverified
sqrt_check_always(t) == CtOption(t.x, 1)

\* if x.square() == t1 { CtOption::new(x, 1.into()) } else { CtOption::new(x, 0.into()) }
sqrt_check(t) == IF square(t.x) = t.t1 THEN CtOption(t.x, 1) ELSE CtOption(t.x, 0)

----------------------------------------------------------------------------
(* The calls the model makes: a constructor fn on an argument arg, then    *)
(* one operation fn2 on the scalar it returned.                            *)

AllOnes == [i \in 1..48 |-> 255]
\* (n - 1) / 2 = floor(n / 2)
HalfOrder == Shr1(ORDER)

\* 384-bit integers around 0, n/2, n and 2^384 - 1
Core384 ==
    {ToBytesLE(j, 48) : j \in 0..MaxK}
    \cup {WrapSub(HalfOrder, ToBytesLE(j, 48)) : j \in 0..MaxK}
    \cup {WrapAdd(HalfOrder, ToBytesLE(j + 1, 48)) : j \in 0..MaxK}
    \cup {WrapSub(ORDER, ToBytesLE(j + 1, 48)) : j \in 0..MaxK}
    \cup {WrapAdd(ORDER, ToBytesLE(j, 48)) : j \in 0..MaxK}
    \cup {WrapSub(AllOnes, ToBytesLE(j, 48)) : j \in 0..MaxK}
    \cup {RmodN, SetLimb(Zeros(48), 0, <<0, 0, 0, 0, 0, 0, 0, 42>>)}

\* n with one byte one lower or one higher: the first difference from n at every
\* byte position, in both directions
NearOrder ==
    {[ORDER EXCEPT ![p] = @ - 1] : p \in {q \in 1..48 : ORDER[q] > 0}}
    \cup {[ORDER EXCEPT ![p] = @ + 1] : p \in {q \in 1..48 : ORDER[q] < 255}}

\* n with one byte one higher and a lower byte one lower, and the other way round:
\* the most significant difference must decide, not a less significant one
Crossed ==
    {[ORDER EXCEPT ![p] = @ + 1, ![q] = @ - 1] :
        p \in {x \in 2..48 : ORDER[x] < 255}, q \in {1, 2}}
    \cup {[ORDER EXCEPT ![p] = @ - 1, ![q] = @ + 1] :
        p \in 3..48, q \in {1, 2}}

\* u64 values
Core64 ==
    {ToBytesLE(j, 8) : j \in 0..MaxK}
    \cup {WrapSub([i \in 1..8 |-> 255], ToBytesLE(j, 8)) : j \in 0..MaxK}
    \cup {ToBytesLE(42, 8), ToBytesLE(64, 8)}

Constructors ==
    {"from_le_bytes", "from_be_bytes", "from_repr", "from_u64", "try_from_U384",
     "from_uint_reduced", "random"}

\* the arguments tried for a constructor (big-endian buffers for the big-endian ones)
ArgsOf(f) ==
    CASE f = "from_le_bytes" -> Core384 \cup NearOrder \cup Crossed
      [] f = "from_be_bytes" -> {Reverse(x) : x \in Core384 \cup NearOrder \cup Crossed}
      [] f = "from_repr" -> {Reverse(x) : x \in Core384 \cup NearOrder}
      [] f \in {"try_from_U384", "from_uint_reduced"} -> Core384
      [] f = "from_u64" -> Core64
      [] f = "random" -> {<<>>}

\* what the random source may write into the buffer
Draws == {Reverse(x) : x \in Core384}

NoRnd == [bytes |-> Zeros(48), draws |-> 0]       \* FieldBytes::default()
Idle  == <<>>

Init ==
    /\ pc = "start"
    /\ fn \in Constructors
    /\ arg \in ArgsOf(fn)
    /\ sc = Err
    /\ fn2 = "none"
    /\ out = Idle
    /\ rnd = NoRnd
    /\ inv = Idle
    /\ sq = Idle

FromLeBytes ==
    /\ pc = "start" /\ fn = "from_le_bytes"
    /\ sc' = from_le_bytes(arg)
    /\ pc' = "made"
    /\ UNCHANGED <<fn, arg, fn2, out, rnd, inv, sq>>

FromBeBytes ==
    /\ pc = "start" /\ fn = "from_be_bytes"
    /\ sc' = from_be_bytes(arg)
    /\ pc' = "made"
    /\ UNCHANGED <<fn, arg, fn2, out, rnd, inv, sq>>

FromRepr ==
    /\ pc = "start" /\ fn = "from_repr"
    /\ sc' = from_repr(arg)
    /\ pc' = "made"
    /\ UNCHANGED <<fn, arg, fn2, out, rnd, inv, sq>>

FromU64 ==
    /\ pc = "start" /\ fn = "from_u64"
    /\ sc' = Ok(from_u64(arg))
    /\ pc' = "made"
    /\ UNCHANGED <<fn, arg, fn2, out, rnd, inv, sq>>

TryFromU384 ==
    /\ pc = "start" /\ fn = "try_from_U384"
    /\ sc' = try_from_U384(arg)
    /\ pc' = "made"
    /\ UNCHANGED <<fn, arg, fn2, out, rnd, inv, sq>>

FromUintReduced ==
    /\ pc = "start" /\ fn = "from_uint_reduced"
    /\ sc' = from_uint_reduced(arg)
    /\ pc' = "made"
    /\ UNCHANGED <<fn, arg, fn2, out, rnd, inv, sq>>

\* random(): rng.fill_bytes(&mut bytes)
RandomFill ==
    /\ pc = "start" /\ fn = "random"
    /\ rnd.draws < MaxDraws
    /\ \E b \in Draws : rnd' = [bytes |-> b, draws |-> rnd.draws + 1]
    /\ pc' = "filled"
    /\ UNCHANGED <<fn, arg, sc, fn2, out, inv, sq>>

\* random(): if let Some(scalar) = Self::from_repr(bytes).into() { return scalar; }
RandomCheck ==
    /\ pc = "filled"
    /\ LET r == from_repr(rnd.bytes)
       IN  IF r.ok THEN sc' = r /\ pc' = "made"
           ELSE sc' = sc /\ pc' = "start"
    /\ UNCHANGED <<fn, arg, fn2, out, rnd, inv, sq>>

ToLeBytes ==
    /\ pc = "made" /\ sc.ok
    /\ fn2' = "to_le_bytes"
    /\ out' = to_le_bytes(sc.val)
    /\ pc' = "done"
    /\ UNCHANGED <<fn, arg, sc, rnd, inv, sq>>

ToBeBytes ==
    /\ pc = "made" /\ sc.ok
    /\ fn2' = "to_be_bytes"
    /\ out' = to_be_bytes(sc.val)
    /\ pc' = "done"
    /\ UNCHANGED <<fn, arg, sc, rnd, inv, sq>>

\* U384::from(scalar)
IntoU384 ==
    /\ pc = "made" /\ sc.ok
    /\ fn2' = "U384_from"
    /\ out' = U384_from(sc.val)
    /\ pc' = "done"
    /\ UNCHANGED <<fn, arg, sc, rnd, inv, sq>>

IsHigh ==
    /\ pc = "made" /\ sc.ok
    /\ fn2' = "is_high"
    /\ out' = <<is_high(sc.val)>>                     \* the Choice's u8
    /\ pc' = "done"
    /\ UNCHANGED <<fn, arg, sc, rnd, inv, sq>>

Next ==
    \/ FromLeBytes \/ FromBeBytes \/ FromRepr \/ FromU64 \/ TryFromU384
    \/ FromUintReduced \/ RandomFill \/ RandomCheck
    \/ ToLeBytes \/ ToBeBytes \/ IntoU384 \/ IsHigh

Spec == Init /\ [][Next]_vars

----------------------------------------------------------------------------
(* invert, one pass of its loop at a time.                                 *)

\* offsets from 0, n/2 and n of the values inverted
MaxInv == 1

\* canonical values of the scalars inverted
InvertArgs ==
    {ToBytesLE(j, 48) : j \in 0..(MaxInv + 1)}
    \cup {WrapSub(ORDER, ToBytesLE(j + 1, 48)) : j \in 0..MaxInv}
    \cup {WrapAdd(HalfOrder, ToBytesLE(j, 48)) : j \in 0..MaxInv}

NoInv == [i |-> 0, steps |-> 0, d |-> 0, f |-> Zeros(56), g |-> Zeros(56), r |-> Zeros(48),
          v |-> Zeros(48), out1 |-> 0, out2 |-> Zeros(56), out3 |-> Zeros(56),
          out4 |-> Zeros(48), out5 |-> Zeros(48)]

InitInvert ==
    /\ pc = "start"
    /\ fn = "from_le_bytes"
    /\ arg \in InvertArgs
    /\ sc = Err
    /\ fn2 = "none"
    /\ out = Err
    /\ rnd = NoRnd
    /\ inv = NoInv
    /\ sq = Idle

\* source lines 201 .. 222
InvertEnter ==
    /\ pc = "made" /\ sc.ok
    /\ fn2' = "invert"
    /\ inv' = invert_enter(sc.val)
    /\ pc' = "invert_loop"
    /\ UNCHANGED <<fn, arg, sc, out, rnd, sq>>

\* while i < ITERATIONS - ITERATIONS % 2 { divstep(&mut out1, .., d, &f, &g, &v, &r);
InvertStepOut ==
    /\ pc = "invert_loop"
    /\ inv.i < ITERATIONS - (ITERATIONS % 2)
    /\ inv' = invert_step_out(inv)
    /\ pc' = "invert_pass"
    /\ UNCHANGED <<fn, arg, sc, fn2, out, rnd, sq>>

\* divstep(&mut d, .., out1, &out2, &out3, &out4, &out5); i += 2; }
InvertStepBack ==
    /\ pc = "invert_pass"
    /\ inv' = invert_step_back(inv)
    /\ pc' = "invert_loop"
    /\ UNCHANGED <<fn, arg, sc, fn2, out, rnd, sq>>

\* source lines 232 .. 246
InvertFinish ==
    /\ pc = "invert_loop"
    /\ ~(inv.i < ITERATIONS - (ITERATIONS % 2))
    /\ inv' = invert_tail(inv)
    /\ out' = invert_finish(sc.val, inv)
    /\ pc' = "done"
    /\ UNCHANGED <<fn, arg, sc, fn2, rnd, sq>>

NextInvert ==
    FromLeBytes \/ InvertEnter \/ InvertStepOut \/ InvertStepBack \/ InvertFinish

SpecInvert == InitInvert /\ [][NextInvert]_vars

\* C1: for every non-zero scalar a, invert(a) is valid and a * invert(a) = ONE;
\* invert(ZERO) is not valid
C1_InverseLaw ==
    (pc = "done" /\ fn2 = "invert") =>
        /\ sc.val # ZERO => (out.ok /\ mul(sc.val, out.val) = ONE)
        /\ sc.val = ZERO => ~out.ok

C1_Witness ==
    /\ pc = "done" /\ fn2 = "invert"
    /\ arg = ToBytesLE(2, 48)
    /\ out.ok
    /\ fiat_p384_scalar_from_montgomery(out.val) = HalfModN

\* ceiling and floor of (49 * 384 + 57) / 17
CeilIterations == (49 * 384 + 57 + 16) \div 17
FloorIterations == (49 * 384 + 57) \div 17

\* the state (d, f, g, v, r) the divsteps start from, for the scalar a
PlainStart(a) ==
    [d |-> 1,
     f |-> fiat_p384_scalar_msat,
     g |-> Pad(fiat_p384_scalar_from_montgomery(a), 56),
     v |-> Zeros(48),
     r |-> ONE]

\* one single divstep on (d, f, g, v, r)
PlainStep(s) ==
    The({[d |-> o.out1, f |-> o.out2, g |-> o.out3, v |-> o.out4, r |-> o.out5]
         : o \in Val(fiat_p384_scalar_divstep(s.d, s.f, s.g, s.v, s.r))})

\* a plain loop of k single divsteps
RECURSIVE PlainLoop(_, _)
PlainLoop(s, k) ==
    IF k = 0 THEN s
    ELSE IF k = 1 THEN PlainStep(s)
    ELSE The({PlainLoop(h, k - (k \div 2)) : h \in Val(PlainLoop(s, k \div 2))})

\* C11 as stated: invert returns after exactly ceil((49 * 384 + 57) / 17) divsteps
C11_CeilCount ==
    (pc = "done" /\ fn2 = "invert") => inv.steps = CeilIterations

\* C11 as amended: for every scalar a, zero or not, invert returns after exactly
\* floor((49 * 384 + 57) / 17) divsteps on (d, f, g, v, r), started from d = 1,
\* f = msat, g = a out of Montgomery form, v = 0, r = 1, and the f and v it goes
\* on with are those of a plain loop of that many single divsteps
C11_FixedCount ==
    /\ (fn2 = "invert" /\ inv.steps = 0) =>
            /\ pc = "invert_loop"
            /\ [d |-> inv.d, f |-> inv.f, g |-> inv.g, v |-> inv.v, r |-> inv.r]
                  = PlainStart(sc.val)
    /\ fn2 = "invert" => inv.steps <= FloorIterations
    /\ (pc = "done" /\ fn2 = "invert") =>
            /\ inv.steps = FloorIterations
            /\ \A p \in Val(PlainLoop(PlainStart(sc.val), FloorIterations)) :
                  inv.f = p.f /\ inv.v = p.v

C11_Witness ==
    /\ pc = "done" /\ fn2 = "invert"
    /\ sc.val = ZERO
    /\ inv.steps = 1110 /\ inv.i = 1110

----------------------------------------------------------------------------
(* sqrt, one line of its addition chain at a time.                         *)

\* the scalars rooted are w * w and -(w * w) for w in 0 .. MaxRoot
MaxRoot == 2

NoSqrt ==
    [line |-> 0,
     t1 |-> ZERO, t10 |-> ZERO, t11 |-> ZERO, t101 |-> ZERO, t111 |-> ZERO,
     t1001 |-> ZERO, t1011 |-> ZERO, t1101 |-> ZERO, t1111 |-> ZERO, t11110 |-> ZERO,
     t11111 |-> ZERO, t1111100 |-> ZERO, t11111000 |-> ZERO, i14 |-> ZERO,
     i20 |-> ZERO, i31 |-> ZERO, i58 |-> ZERO, i110 |-> ZERO, x194 |-> ZERO,
     i225 |-> ZERO, i235 |-> ZERO, i258 |-> ZERO, i269 |-> ZERO, i286 |-> ZERO,
     i308 |-> ZERO, i323 |-> ZERO, i340 |-> ZERO, i357 |-> ZERO, i369 |-> ZERO,
     i387 |-> ZERO, i397 |-> ZERO, i413 |-> ZERO, i427 |-> ZERO, x |-> ZERO]

\* arg is w; fn tells whether the scalar rooted is w * w (a quadratic residue) or
\* -(w * w) (a non-residue when w # 0, since n = 3 mod 4)
InitSqrt ==
    /\ pc = "start"
    /\ fn \in {"square", "neg_square"}
    /\ arg \in {ToBytesLE(k, 48) : k \in 0..MaxRoot}
    /\ sc = Err
    /\ fn2 = "none"
    /\ out = Err
    /\ rnd = NoRnd
    /\ inv = NoInv
    /\ sq = NoSqrt

\* the caller's scalar, w.square() or -w.square(), and the call of sqrt on it
SqrtOperand ==
    /\ pc = "start" /\ fn \in {"square", "neg_square"}
    /\ \E ww \in Val(square(from_le_bytes(arg).val)) :
          sc' = IF fn = "square" THEN Ok(ww) ELSE Ok(neg(ww))
    /\ fn2' = "sqrt"
    /\ sq' = [NoSqrt EXCEPT !.line = 252]
    /\ pc' = "sqrt_chain"
    /\ UNCHANGED <<fn, arg, out, rnd, inv>>

\* one of the lets of source lines 252 .. 285
SqrtLine ==
    /\ pc = "sqrt_chain"
    /\ sq.line <= 285
    /\ sq' = [sqrt_line(sc.val, sq) EXCEPT !.line = @ + 1]
    /\ UNCHANGED <<pc, fn, arg, sc, fn2, out, rnd, inv>>

\* source lines 286 .. 290
SqrtCheck ==
    /\ pc = "sqrt_chain"
    /\ sq.line > 285
    /\ out' = sqrt_check(sq)
    /\ pc' = "done"
    /\ UNCHANGED <<fn, arg, sc, fn2, rnd, inv, sq>>

NextSqrt == SqrtOperand \/ SqrtLine \/ SqrtCheck

SpecSqrt == InitSqrt /\ [][NextSqrt]_vars

\* (n + 1) / 4
SqrtExp == SubSeq(Shr1(Shr1(adc(ORDER, ToBytesLE(1, 48), 0))), 1, 48)

\* acc ^ (2 ^ (hi - lo + 1)) * x ^ (bits hi .. lo of e), bit 0 the lowest bit of e
\* (the range is split in two halves, upper half first)
RECURSIVE PowBits(_, _, _, _, _)
PowBits(acc, x, e, hi, lo) ==
    IF hi < lo THEN acc
    ELSE IF hi = lo
    THEN The({IF (e[(hi \div 8) + 1] \div (2 ^ (hi % 8))) % 2 = 1
              THEN MulModN(a2, x) ELSE a2 : a2 \in Val(MulModN(acc, acc))})
    ELSE The({PowBits(up, x, e, (lo + hi) \div 2, lo)
              : up \in Val(PowBits(acc, x, e, hi, ((lo + hi) \div 2) + 1))})

\* C4: sqrt(x) returns y = x^((n+1)/4) with a flag that is true exactly when
\* y * y = x: true for every quadratic residue x (zero included), false for every
\* non-residue
C4_SqrtLaw ==
    (pc = "done" /\ fn2 = "sqrt") =>
        /\ fiat_p384_scalar_from_montgomery(out.val)
              = PowBits(ToBytesLE(1, 48), fiat_p384_scalar_from_montgomery(sc.val),
                        SqrtExp, 383, 0)
        /\ out.ok <=> mul(out.val, out.val) = sc.val
        /\ fn = "square" => out.ok
        /\ (fn = "neg_square" /\ arg # Zeros(48)) => ~out.ok

C4_Witness ==
    /\ pc = "done" /\ fn2 = "sqrt" /\ fn = "square" /\ arg = ToBytesLE(2, 48)
    /\ out.ok
    /\ out.val \in {from_le_bytes(arg).val, neg(from_le_bytes(arg).val)}

----------------------------------------------------------------------------
(* Properties.                                                             *)

\* the scalar with limbs s stands for the integer v mod n
HasValue(s, v) == fiat_p384_scalar_from_montgomery(s) = ModN(v)

Returned == pc \in {"made", "done"}

\* the integer a decoder's argument spells
ArgValue == IF fn \in {"from_be_bytes", "from_repr"} THEN Reverse(arg) ELSE arg

\* C2: from_le_bytes / from_be_bytes return Err exactly when the buffer's integer
\* value is >= n (n itself included) and Ok exactly when it is < n
C2_CanonicalDecode ==
    (Returned /\ fn \in {"from_le_bytes", "from_be_bytes"}) =>
        /\ ~sc.panic
        /\ sc.ok <=> Below(ArgValue, ORDER)

C2_Witness ==
    /\ pc = "made" /\ fn = "from_le_bytes" /\ arg = ORDER /\ ~sc.ok

C5_FromReprRejects ==
    (Returned /\ fn = "from_repr") =>
        /\ sc.ok <=> Below(ArgValue, ORDER)
        /\ sc.ok => HasValue(sc.val, ArgValue)

\* C6: random returns only on a draw whose value is < n (a draw >= n is rejected
\* and followed by a fresh draw), and returns the scalar of exactly that value
C6_RandomRejects ==
    /\ (Returned /\ fn = "random") =>
            /\ Below(Reverse(rnd.bytes), ORDER)
            /\ sc.ok /\ fiat_p384_scalar_from_montgomery(sc.val) = Reverse(rnd.bytes)
    /\ (pc = "start" /\ fn = "random" /\ rnd.draws > 0) =>
            ~Below(Reverse(rnd.bytes), ORDER)

\* C7: Scalar::from(k) is the field element of value k: its big-endian encoding is
\* 40 zero bytes and the 8 big-endian bytes of k, Scalar::from(1) = ONE, and
\* Scalar::from(j) + Scalar::from(k) = Scalar::from(j + k) when j + k fits a u64
C7_FromU64 ==
    /\ (Returned /\ fn = "from_u64") =>
            /\ HasValue(sc.val, Pad(arg, 48))
            /\ arg = ToBytesLE(1, 8) => sc.val = ONE
            /\ \A k \in Core64 :
                  Last(adc(arg, k, 0)) = 0 =>
                      add(sc.val, from_u64(k)) = from_u64(WrapAdd(arg, k))
    /\ (pc = "done" /\ fn = "from_u64" /\ fn2 = "to_be_bytes") =>
            out = Zeros(40) \o Reverse(arg)

\* C8: for w < n, U384::from(Scalar::try_from(w).unwrap()) = w and try_from(w) is
\* the scalar from_le_bytes(w.to_le_bytes()); for a decoded scalar s,
\* Scalar::try_from(U384::from(s)).unwrap() = s
C8_U384RoundTrip ==
    /\ (Returned /\ fn = "try_from_U384" /\ Below(arg, ORDER)) =>
            sc = from_le_bytes(arg)
    /\ (pc = "done" /\ fn = "try_from_U384" /\ fn2 = "U384_from"
            /\ Below(arg, ORDER)) => out = arg
    /\ (pc = "done" /\ fn \in {"from_le_bytes", "from_be_bytes"}
            /\ fn2 = "U384_from") => Unwrap(try_from_U384(out)).val = sc.val

\* 2n as a 49-byte integer
TwoN == adc(ORDER, ORDER, 0)

\* C9: for w < 2n, from_uint_reduced(w) is the scalar of value w mod n (w itself
\* when w < n, w - n when w >= n) and neither unwrap nor expect panics
C9_ReduceOnce ==
    (Returned /\ fn = "from_uint_reduced" /\ Below(Pad(arg, 49), TwoN)) =>
        /\ ~sc.panic
        /\ sc.ok
        /\ fiat_p384_scalar_from_montgomery(sc.val)
              = IF Below(arg, ORDER) THEN arg ELSE WrapSub(arg, ORDER)

C9_Witness ==
    /\ pc = "made" /\ fn = "from_uint_reduced" /\ arg = AllOnes
    /\ sc.ok /\ sc = from_le_bytes(WrapSub(AllOnes, ORDER))

\* C10: is_high(s) is true exactly when the canonical value of s is above
\* floor(n / 2); is_high(s) and is_high(-s) are never both true, and exactly one of
\* them is true when s # 0
C10_IsHigh ==
    (pc = "done" /\ fn2 = "is_high" /\ fn \in {"from_le_bytes", "from_be_bytes"}) =>
        /\ out = <<1>> <=> Below(HalfOrder, fiat_p384_scalar_from_montgomery(sc.val))
        /\ ~(out = <<1>> /\ is_high(neg(sc.val)) = 1)
        /\ sc.val # ZERO => (out = <<1>> \/ is_high(neg(sc.val)) = 1)

====
